---- MODULE Spec2Model ----
(***************************************************************************)
(* gef::sparse_array<T> (sparse_array.hpp) over gef::option<T>             *)
(* (option.hpp).  data_vec is a std::vector of options, alive_vec a        *)
(* std::vector of slot indices.  Slot indices are 0-based as in the        *)
(* source; TLA+ sequences are 1-based, so slot i is data_vec[i + 1].       *)
(* gef::mutex<T> (mutex_guard.hpp) is modelled next to it: threads calling  *)
(* lock, shared_lock and try_lock on one mutex.                            *)
(***************************************************************************)
EXTENDS Integers, Sequences, FiniteSets, TLC

\* ---- bounds --------------------------------------------------------------
\* largest argument given to resize
MaxCap == 2
\* alive_vec is never grown past this many entries
MaxAlive == 3
\* number of distinct payload values
NumValues == 2
\* number of threads that share the gef::mutex
NumThreads == 3

Values == 1 .. NumValues
Indices == 0 .. (MaxCap - 1)
\* a predicate is the set of payloads it accepts
Preds == SUBSET Values
\* for_each visitors: inspect the payload, or mutate it
Visitors == {"read", "bump"}
\* std::vector growth factor of the build
GrowthPolicies == {"x2", "x1_5"}
\* what vector::erase does when handed a position >= end()
UBOutcomes == {"abort", "shrink"}
Threads == 1 .. NumThreads

VARIABLES
    data_vec,      \* std::vector<gef::option<T>>
    alive_vec,     \* std::vector<size_t>, the elements [begin, end)
    alive_cap,     \* alive_vec.capacity()
    growth,        \* reallocation policy of the standard library in use
    crashed,       \* the process was terminated by undefined behaviour
    last,          \* the most recent public call, its arguments and its result
    trace,         \* predicate evaluations and payload constructor / destructor
                   \* calls of the most recent call, kept by the traced operations
    m_mutex,       \* gef::mutex::m_mutex, the std::shared_mutex: its exclusive
                   \* owner (0 when none) and its shared owners
    pc,            \* per thread: where it is inside its gef::mutex call
    call           \* per thread: its current or last gef::mutex call, the
                   \* callbacks that call invoked and what they were handed

array_vars == << data_vec, alive_vec, alive_cap, growth, crashed, last >>

mutex_vars == << m_mutex, pc, call >>

vars == << data_vec, alive_vec, alive_cap, growth, crashed, last, trace, m_mutex, pc, call >>

\* ---- gef::option<T> ------------------------------------------------------
nullopt == -1

has_value(opt) == opt # nullopt

is_null(opt) == ~ has_value(opt)

\* reset that leaves m_is_some set
option_reset_keep(opt) == opt

\* option::reset: destroy the payload if there is one
option_reset(opt) == IF has_value(opt) THEN nullopt ELSE opt

\* option::set: reset, then placement-construct the new payload over whatever
\* reset left in the storage
option_set(opt, v) == IF has_value(option_reset(opt)) THEN v ELSE v

\* ---- helpers over sequences ---------------------------------------------
RECURSIVE Count(_, _)
Count(s, x) ==
    IF s = << >> THEN 0
    ELSE (IF Head(s) = x THEN 1 ELSE 0) + Count(Tail(s), x)

Range(s) == { s[k] : k \in 1 .. Len(s) }

RECURSIVE Filter(_, _)
Filter(s, keep) ==
    IF s = << >> THEN << >>
    ELSE IF Head(s) \in keep THEN << Head(s) >> \o Filter(Tail(s), keep)
         ELSE Filter(Tail(s), keep)

NullSlots(n) == [ k \in 1 .. n |-> nullopt ]

\* ---- sparse_array queries ------------------------------------------------
slots == Len(data_vec)

size == Len(alive_vec)

capacity == alive_cap

\* at(index): value_unchecked() of the slot; on an empty slot the read is of a
\* destroyed (or never constructed) union member and yields garbage[index].
at_in(data, index, garbage) ==
    IF has_value(data[index + 1]) THEN data[index + 1] ELSE garbage[index]

Occupied == { i \in 0 .. (slots - 1) : has_value(data_vec[i + 1]) }

\* the listed slots that are empty: for_each and first_if read their payload
\* through value_unchecked()
Unchecked == { i \in Range(alive_vec) : is_null(data_vec[i + 1]) }

Garbages == [ Unchecked -> Values ]

\* erase_if(f) also reads, a second time and after its own reset, the slots
\* that are listed more than once and hold a payload f accepts
UncheckedErase(f) ==
    Unchecked \cup { i \in Range(alive_vec) :
                       Count(alive_vec, i) > 1 /\ data_vec[i + 1] \in f }

\* a predicate sees of a garbage payload only whether it accepts it: one
\* accepted and one rejected value stand for all
GarbageValues(f) ==
    LET least(S) == CHOOSE v \in S : \A w \in S : v <= w IN
    (IF f # {} THEN { least(f) } ELSE {})
        \cup (IF Values \ f # {} THEN { least(Values \ f) } ELSE {})

GarbagesErase(f) == [ UncheckedErase(f) -> GarbageValues(f) ]

GarbagesFirst(f) == [ Unchecked -> GarbageValues(f) ]

\* ---- std::vector<size_t> behaviour used by the container -----------------
\* reserve(n): reallocate to exactly n when n exceeds the capacity
vector_reserve(cap, n) == IF n > cap THEN n ELSE cap

\* emplace_back on a full vector reallocates geometrically
vector_grow(cap, sz, policy) ==
    IF sz < cap THEN cap
    ELSE IF policy = "x2" THEN (IF sz = 0 THEN 1 ELSE 2 * sz)
         ELSE (IF cap + (cap \div 2) > sz THEN cap + (cap \div 2) ELSE sz + 1)

\* vector::erase(begin() + p) for p < len: shift the tail left by one; the old
\* last cell keeps its bits.
vector_erase(buf, len, p) ==
    [ k \in 1 .. Len(buf) |-> IF k >= p + 1 /\ k < len THEN buf[k + 1] ELSE buf[k] ]

\* ---- record of the last call --------------------------------------------
\* Each operation fills in the fields it has: its arguments (index, value,
\* pred, visitor), its result (ret, visited, evals, past_end) and, where a
\* property needs them, size(), data_vec.size() and the number of entries of
\* alive_vec equal to index as they were before the call (pre_size, pre_slots,
\* pre_count).
Call(op) ==
    [ op |-> op, index |-> -1, value |-> 0,
      pred |-> {}, visitor |-> "none", ret |-> -1,
      visited |-> << >>, evals |-> << >>, past_end |-> FALSE,
      pre_size |-> -1, pre_slots |-> -1, pre_count |-> -1, after_erase |-> -1 ]

\* what a traced operation notes: the predicate evaluations of erase_if, the
\* payload destructor and constructor calls of the call in their order, and
\* the number of payloads constructed so far and not destroyed
NoTrace == [ evals |-> << >>, events |-> << >>, balance |-> 0 ]

\* a thread's gef::mutex call: the operation and the callbacks invoked so far,
\* each with whether it was handed the guarded value
NoCall == [ op |-> "none", ran |-> << >> ]

\* ---- construction --------------------------------------------------------
Init ==
    /\ data_vec = << >>
    /\ alive_vec = << >>
    /\ alive_cap = 0
    /\ growth \in GrowthPolicies
    /\ crashed = FALSE
    /\ last = Call("ctor")
    /\ trace = NoTrace
    /\ m_mutex = [ writer |-> 0, readers |-> {} ]
    /\ pc = [ t \in Threads |-> "idle" ]
    /\ call = [ t \in Threads |-> NoCall ]

\* ---- resize --------------------------------------------------------------
\* resize that reassigns the vector instead of resizing it
resize_data_assign(data, new_capacity) == NullSlots(new_capacity)

resize_data(data, new_capacity) ==
    IF new_capacity <= Len(data) THEN SubSeq(data, 1, new_capacity)
    ELSE data \o NullSlots(new_capacity - Len(data))

\* Shrinking below a listed index is outside the operation's contract (the
\* entry would name a slot that no longer exists), so it is not taken.
resize(new_capacity) ==
    /\ ~ crashed
    /\ \A k \in 1 .. Len(alive_vec) : alive_vec[k] < new_capacity
    /\ data_vec' = resize_data(data_vec, new_capacity)
    /\ alive_cap' = vector_reserve(alive_cap, new_capacity)
    /\ last' = [ Call("resize") EXCEPT !.index = new_capacity, !.pre_slots = slots ]
    /\ UNCHANGED << alive_vec, growth, crashed >>

\* ---- emplace_at ----------------------------------------------------------
\* (an emplace_at that lists the index only when the slot was empty)
emplace_at_once(index, v) ==
    /\ ~ crashed
    /\ index < slots
    /\ size < MaxAlive
    /\ alive_vec' = IF is_null(data_vec[index + 1]) THEN Append(alive_vec, index) ELSE alive_vec
    /\ alive_cap' = vector_grow(alive_cap, size, growth)
    /\ data_vec' = [ data_vec EXCEPT ![index + 1] = option_set(@, v) ]
    /\ last' = [ Call("emplace_at") EXCEPT
                    !.index = index, !.value = v, !.ret = v, !.pre_size = size,
                    !.pre_count = Count(alive_vec, index) ]
    /\ UNCHANGED << growth, crashed >>

emplace_at(index, v) ==
    /\ ~ crashed
    /\ index < slots
    /\ size < MaxAlive
    /\ alive_vec' = Append(alive_vec, index)
    /\ alive_cap' = vector_grow(alive_cap, size, growth)
    /\ data_vec' = [ data_vec EXCEPT ![index + 1] = option_set(@, v) ]
    /\ last' = [ Call("emplace_at") EXCEPT
                    !.index = index, !.value = v, !.ret = v,
                    !.pre_size = size, !.pre_count = Count(alive_vec, index),
                    !.after_erase =
                        IF last.op = "erase_at" /\ last.index = index /\ last.pre_count >= 1
                        THEN last.pre_size ELSE -1 ]
    /\ UNCHANGED << growth, crashed >>

\* emplace_at used within the container's contract: the target slot is empty
emplace_at_empty(index, v) ==
    /\ index < slots
    /\ is_null(data_vec[index + 1])
    /\ emplace_at(index, v)

\* ---- next_empty_index ----------------------------------------------------
\* the scan of data_vec: index of the first null slot at or after position k
RECURSIVE first_null_from(_, _)
first_null_from(data, k) ==
    IF k > Len(data) THEN nullopt
    ELSE IF is_null(data[k]) THEN k - 1
    ELSE first_null_from(data, k + 1)

next_empty_index_ret ==
    IF size = capacity THEN nullopt
    ELSE first_null_from(data_vec, 1)

next_empty_index ==
    /\ ~ crashed
    /\ last' = [ Call("next_empty_index") EXCEPT !.ret = next_empty_index_ret ]
    /\ UNCHANGED << data_vec, alive_vec, alive_cap, growth, crashed >>

\* ---- erase_at ------------------------------------------------------------
\* The range-for keeps the iterator `it` and the end iterator `end` it took
\* before the first erase.  buf is the storage of alive_vec, len its current
\* size; cells in [len, end) still hold the bits left there by the shifts.
\* Erasing at a position >= len is undefined: the build either aborts or
\* moves nothing and decrements the end pointer.
\* (a loop that erases the entry it starts on without comparing it to index)
erase_at_loop_unmatched(buf, len, it, end, index, ub) ==
    IF it >= end THEN [ buf |-> buf, len |-> len, crashed |-> FALSE, past_end |-> FALSE ]
    ELSE [ buf |-> vector_erase(buf, len, it), len |-> len - 1,
           crashed |-> FALSE, past_end |-> FALSE ]

RECURSIVE erase_at_loop(_, _, _, _, _, _)
erase_at_loop(buf, len, it, end, index, ub) ==
    IF it >= end THEN [ buf |-> buf, len |-> len, crashed |-> FALSE, past_end |-> FALSE ]
    ELSE IF buf[it + 1] = index THEN
        IF it < len
        THEN erase_at_loop(vector_erase(buf, len, it), len - 1, it + 1, end, index, ub)
        ELSE IF ub = "abort"
             THEN [ buf |-> buf, len |-> len, crashed |-> TRUE, past_end |-> TRUE ]
             ELSE [ erase_at_loop(buf, len - 1, it + 1, end, index, ub)
                        EXCEPT !.past_end = TRUE ]
    ELSE erase_at_loop(buf, len, it + 1, end, index, ub)

\* the outcomes of one call: a single one unless the loop erases past the end
erase_at_outcomes(index) ==
    { erase_at_loop(alive_vec, size, 0, size, index, ub) : ub \in UBOutcomes }

erase_at(index) ==
    /\ ~ crashed
    /\ index < slots
    /\ \E r \in erase_at_outcomes(index) :
         IF r.crashed
         THEN /\ crashed' = TRUE
              /\ last' = [ Call("erase_at") EXCEPT
                             !.index = index, !.pre_size = size,
                             !.pre_count = Count(alive_vec, index), !.past_end = TRUE ]
              /\ UNCHANGED << data_vec, alive_vec, alive_cap, growth >>
         ELSE /\ alive_vec' = SubSeq(r.buf, 1, r.len)
              /\ data_vec' = [ data_vec EXCEPT ![index + 1] = option_reset(@) ]
              /\ last' = [ Call("erase_at") EXCEPT
                             !.index = index, !.pre_size = size,
                             !.pre_count = Count(alive_vec, index),
                             !.past_end = r.past_end,
                             !.after_erase =
                                 IF last.op = "erase_at" /\ last.index = index
                                    /\ last.pre_count >= 1
                                 THEN last.pre_size ELSE -1 ]
              /\ UNCHANGED << alive_cap, growth, crashed >>

\* ---- erase_if ------------------------------------------------------------
\* the lambda handed to std::erase_if: apply f to at(index); on acceptance
\* reset the slot and ask for the entry's removal
erase_if_lambda(data, index, f, garbage) ==
    IF at_in(data, index, garbage) \in f
    THEN [ data |-> [ data EXCEPT ![index + 1] = option_reset(@) ], remove |-> TRUE ]
    ELSE [ data |-> data, remove |-> FALSE ]

\* std::erase_if(alive_vec, lambda): one pass in order, the lambda applied once
\* to each element, the elements it rejects kept in their order.
RECURSIVE erase_if_pass(_, _, _, _, _, _, _)
erase_if_pass(data, alive, k, f, garbage, kept, evals) ==
    IF k > Len(alive) THEN [ data |-> data, alive |-> kept, evals |-> evals ]
    ELSE LET index == alive[k]
             ev == Append(evals, << index, IF has_value(data[index + 1]) THEN 1 ELSE 0 >>)
             r == erase_if_lambda(data, index, f, garbage)
         IN erase_if_pass(r.data, alive, k + 1, f, garbage,
                          IF r.remove THEN kept ELSE Append(kept, index), ev)

erase_if(f, garbage) ==
    /\ ~ crashed
    /\ LET r == erase_if_pass(data_vec, alive_vec, 1, f, garbage, << >>, << >>) IN
         /\ data_vec' = r.data
         /\ alive_vec' = r.alive
         /\ last' = [ Call("erase_if") EXCEPT !.pred = f ]
    /\ UNCHANGED << alive_cap, growth, crashed >>

\* ---- for_each ------------------------------------------------------------
Bump(v) == (v % NumValues) + 1

visit(f, v) == IF f = "bump" THEN Bump(v) ELSE v

\* for_each that walks alive_vec from the back
RECURSIVE for_each_pass_reversed(_, _, _, _, _, _)
for_each_pass_reversed(data, alive, k, f, garbage, visited) ==
    IF k > Len(alive) THEN [ data |-> data, visited |-> visited ]
    ELSE LET index == alive[Len(alive) + 1 - k]
             payload == at_in(data, index, garbage)
             data2 == IF has_value(data[index + 1])
                      THEN [ data EXCEPT ![index + 1] = visit(f, payload) ]
                      ELSE data
         IN for_each_pass_reversed(data2, alive, k + 1, f, garbage,
                                   Append(visited, << payload, index >>))

RECURSIVE for_each_pass(_, _, _, _, _, _)
for_each_pass(data, alive, k, f, garbage, visited) ==
    IF k > Len(alive) THEN [ data |-> data, visited |-> visited ]
    ELSE LET index == alive[k]
             payload == at_in(data, index, garbage)
             data2 == IF has_value(data[index + 1])
                      THEN [ data EXCEPT ![index + 1] = visit(f, payload) ]
                      ELSE data
         IN for_each_pass(data2, alive, k + 1, f, garbage,
                          Append(visited, << payload, index >>))

for_each(f, garbage) ==
    /\ ~ crashed
    /\ LET r == for_each_pass(data_vec, alive_vec, 1, f, garbage, << >>) IN
         /\ data_vec' = r.data
         /\ last' = [ Call("for_each") EXCEPT !.visitor = f, !.visited = r.visited ]
    /\ UNCHANGED << alive_vec, alive_cap, growth, crashed >>

\* ---- first_if ------------------------------------------------------------
RECURSIVE first_if_pass(_, _, _, _, _, _)
first_if_pass(data, alive, k, f, garbage, evals) ==
    IF k > Len(alive) THEN [ ret |-> nullopt, evals |-> evals ]
    ELSE LET index == alive[k]
             ev == Append(evals, << index, IF has_value(data[index + 1]) THEN 1 ELSE 0 >>)
         IN IF at_in(data, index, garbage) \in f
            THEN [ ret |-> index, evals |-> ev ]
            ELSE first_if_pass(data, alive, k + 1, f, garbage, ev)

first_if(f, garbage) ==
    /\ ~ crashed
    /\ LET r == first_if_pass(data_vec, alive_vec, 1, f, garbage, << >>) IN
         last' = [ Call("first_if") EXCEPT !.pred = f, !.ret = r.ret, !.evals = r.evals ]
    /\ UNCHANGED << data_vec, alive_vec, alive_cap, growth, crashed >>

\* ---- clear ---------------------------------------------------------------
\* clear whose loop starts at the second slot
clear_data_skip_first(data) ==
    [ k \in 1 .. Len(data) |-> IF k = 1 THEN data[k] ELSE option_reset(data[k]) ]

clear_data(data) == [ k \in 1 .. Len(data) |-> option_reset(data[k]) ]

clear ==
    /\ ~ crashed
    /\ alive_vec' = << >>
    /\ data_vec' = clear_data(data_vec)
    /\ last' = [ Call("clear") EXCEPT !.pre_size = size ]
    /\ UNCHANGED << alive_cap, growth, crashed >>

\* ---- payload lifetime and predicate evaluations --------------------------
\* option::reset runs the payload's destructor when the option holds one
option_reset_events(opt, index) ==
    IF has_value(opt) THEN << << "dtor", index >> >> ELSE << >>

\* option::set resets, then constructs the new payload in place
option_set_events(opt, index) ==
    option_reset_events(opt, index) \o << << "ctor", index >> >>

\* how often the event e is in the sequence events
Events(events, e) == Cardinality({ k \in 1 .. Len(events) : events[k] = e })

Constructed(events) == Cardinality({ k \in 1 .. Len(events) : events[k][1] = "ctor" })

Destroyed(events) == Cardinality({ k \in 1 .. Len(events) : events[k][1] = "dtor" })

Traced(evals, events) ==
    [ evals |-> evals, events |-> events,
      balance |-> trace.balance + Constructed(events) - Destroyed(events) ]

\* sparse_array(size): the constructor that sizes the store
sparse_array_sized(size_arg) ==
    /\ last.op = "ctor"
    /\ resize(size_arg)
    /\ UNCHANGED << trace, m_mutex, pc, call >>

emplace_at_traced(index, v) ==
    /\ emplace_at(index, v)
    /\ trace' = Traced(<< >>, option_set_events(data_vec[index + 1], index))
    /\ UNCHANGED << m_mutex, pc, call >>

erase_at_traced(index) ==
    /\ erase_at(index)
    /\ trace' = IF crashed' THEN Traced(<< >>, << >>)
                ELSE Traced(<< >>, option_reset_events(data_vec[index + 1], index))
    /\ UNCHANGED << m_mutex, pc, call >>

\* the pass of std::erase_if once more, noting for each application of the
\* lambda the index, whether the slot held a payload (1) or not (0), whether
\* the lambda asked for the removal (1) or not (0), and the destructor calls
RECURSIVE erase_if_trace(_, _, _, _, _, _, _)
erase_if_trace(data, alive, k, f, garbage, evals, events) ==
    IF k > Len(alive) THEN [ evals |-> evals, events |-> events ]
    ELSE LET index == alive[k]
             r == erase_if_lambda(data, index, f, garbage)
         IN erase_if_trace(r.data, alive, k + 1, f, garbage,
                Append(evals, << index,
                                 IF has_value(data[index + 1]) THEN 1 ELSE 0,
                                 IF r.remove THEN 1 ELSE 0 >>),
                IF r.remove THEN events \o option_reset_events(data[index + 1], index)
                ELSE events)

erase_if_traced(f, garbage) ==
    /\ erase_if(f, garbage)
    /\ LET r == erase_if_trace(data_vec, alive_vec, 1, f, garbage, << >>, << >>) IN
         trace' = Traced(r.evals, r.events)
    /\ UNCHANGED << m_mutex, pc, call >>

RECURSIVE clear_events(_, _)
clear_events(data, k) ==
    IF k > Len(data) THEN << >>
    ELSE option_reset_events(data[k], k - 1) \o clear_events(data, k + 1)

clear_traced ==
    /\ clear
    /\ trace' = Traced(<< >>, clear_events(data_vec, 1))
    /\ UNCHANGED << m_mutex, pc, call >>

\* ---- specifications ------------------------------------------------------
\* a container operation touches neither the mutex nor the trace
Untraced == UNCHANGED << trace, m_mutex, pc, call >>

\* the operations that write data_vec or alive_vec, any in-range index
NextUpdate ==
    \/ \E n \in 0 .. MaxCap : resize(n) /\ Untraced
    \/ \E i \in Indices, v \in Values : emplace_at(i, v) /\ Untraced
    \/ \E i \in Indices : erase_at(i) /\ Untraced
    \/ \E f \in Preds : \E g \in GarbagesErase(f) : erase_if(f, g) /\ Untraced
    \/ \E f \in Visitors, g \in Garbages : for_each(f, g) /\ Untraced
    \/ clear /\ Untraced

SpecUpdate == Init /\ [][NextUpdate]_vars

\* every public operation: the updates and the two queries
Next ==
    \/ NextUpdate
    \/ \E f \in Preds : \E g \in GarbagesFirst(f) : first_if(f, g) /\ Untraced
    \/ next_empty_index /\ Untraced

Spec == Init /\ [][Next]_vars

\* every public operation, with emplace_at applied to empty slots only
NextContract ==
    \/ \E n \in 0 .. MaxCap : resize(n) /\ Untraced
    \/ \E i \in Indices, v \in Values : emplace_at_empty(i, v) /\ Untraced
    \/ \E i \in Indices : erase_at(i) /\ Untraced
    \/ \E f \in Preds : \E g \in GarbagesErase(f) : erase_if(f, g) /\ Untraced
    \/ \E f \in Visitors, g \in Garbages : for_each(f, g) /\ Untraced
    \/ \E f \in Preds : \E g \in GarbagesFirst(f) : first_if(f, g) /\ Untraced
    \/ next_empty_index /\ Untraced
    \/ clear /\ Untraced

SpecContract == Init /\ [][NextContract]_vars

\* a store sized once by its constructor and then used through emplace_at,
\* erase_at, erase_if and clear, with the trace kept
NextTrace ==
    \/ \E n \in 1 .. MaxCap : sparse_array_sized(n)
    \/ \E i \in Indices, v \in Values : emplace_at_traced(i, v)
    \/ \E i \in Indices : erase_at_traced(i)
    \/ \E f \in Preds : \E g \in GarbagesErase(f) : erase_if_traced(f, g)
    \/ clear_traced

SpecTrace == Init /\ [][NextTrace]_vars

\* ---- gef::mutex ----------------------------------------------------------
\* std::shared_mutex: one exclusive owner or any number of shared owners
shared_mutex_free(m) == m.writer = 0 /\ m.readers = {}

shared_mutex_lock(m, t) == [ m EXCEPT !.writer = t ]

shared_mutex_lock_shared(m, t) == [ m EXCEPT !.readers = @ \cup { t } ]

\* the destructor of the guard object: releases what the guard owns, nothing
\* when it owns nothing
guard_release_keep(m, t) == m

guard_release(m, t) ==
    [ writer |-> IF m.writer = t THEN 0 ELSE m.writer, readers |-> m.readers \ { t } ]

\* std::shared_mutex::try_lock never blocks; it fails when the mutex is owned
\* and is allowed to fail when it is not
try_to_lock(m) == IF shared_mutex_free(m) THEN { TRUE, FALSE } ELSE { FALSE }

\* the callback cb is invoked; value tells whether it is handed the guarded value
Invoke(c, cb, value) == [ c EXCEPT !.ran = Append(@, [ cb |-> cb, value |-> value ]) ]

HoldsExclusive(t) == m_mutex.writer = t

HoldsShared(t) == t \in m_mutex.readers

\* a thread enters lock(f) and reaches the construction of the scoped_lock
lock_call(t) ==
    /\ pc[t] = "idle"
    /\ pc' = [ pc EXCEPT ![t] = "lock_wait" ]
    /\ call' = [ call EXCEPT ![t] = [ op |-> "lock", ran |-> << >> ] ]
    /\ UNCHANGED << m_mutex, array_vars, trace >>

\* lock that takes the mutex in shared mode
lock_shared_mode(t) ==
    /\ pc[t] = "lock_wait"
    /\ m_mutex.writer = 0
    /\ m_mutex' = shared_mutex_lock_shared(m_mutex, t)
    /\ pc' = [ pc EXCEPT ![t] = "lock_f" ]
    /\ call' = [ call EXCEPT ![t] = Invoke(@, "f", TRUE) ]
    /\ UNCHANGED << array_vars, trace >>

\* the scoped_lock is constructed once the mutex is free, then f(value) runs
lock(t) ==
    /\ pc[t] = "lock_wait"
    /\ shared_mutex_free(m_mutex)
    /\ m_mutex' = shared_mutex_lock(m_mutex, t)
    /\ pc' = [ pc EXCEPT ![t] = "lock_f" ]
    /\ call' = [ call EXCEPT ![t] = Invoke(@, "f", TRUE) ]
    /\ UNCHANGED << array_vars, trace >>

\* f returns; the scoped_lock is destroyed
lock_return(t) ==
    /\ pc[t] = "lock_f"
    /\ m_mutex' = guard_release(m_mutex, t)
    /\ pc' = [ pc EXCEPT ![t] = "idle" ]
    /\ UNCHANGED << call, array_vars, trace >>

shared_lock_call(t) ==
    /\ pc[t] = "idle"
    /\ pc' = [ pc EXCEPT ![t] = "shared_wait" ]
    /\ call' = [ call EXCEPT ![t] = [ op |-> "shared_lock", ran |-> << >> ] ]
    /\ UNCHANGED << m_mutex, array_vars, trace >>

\* the std::shared_lock is constructed once no thread owns the mutex
\* exclusively, then f(value) runs
shared_lock(t) ==
    /\ pc[t] = "shared_wait"
    /\ m_mutex.writer = 0
    /\ m_mutex' = shared_mutex_lock_shared(m_mutex, t)
    /\ pc' = [ pc EXCEPT ![t] = "shared_g" ]
    /\ call' = [ call EXCEPT ![t] = Invoke(@, "g", TRUE) ]
    /\ UNCHANGED << array_vars, trace >>

shared_lock_return(t) ==
    /\ pc[t] = "shared_g"
    /\ m_mutex' = guard_release(m_mutex, t)
    /\ pc' = [ pc EXCEPT ![t] = "idle" ]
    /\ UNCHANGED << call, array_vars, trace >>

\* try_lock that constructs its guard the way lock does
try_lock_blocking(t) ==
    /\ pc[t] = "idle"
    /\ shared_mutex_free(m_mutex)
    /\ m_mutex' = shared_mutex_lock(m_mutex, t)
    /\ pc' = [ pc EXCEPT ![t] = "try_f_locked" ]
    /\ call' = [ call EXCEPT ![t] = Invoke([ op |-> "try_lock", ran |-> << >> ], "f_locked", TRUE) ]
    /\ UNCHANGED << array_vars, trace >>

\* the unique_lock is constructed with try_to_lock; when it owns the mutex
\* f_locked(value) runs, otherwise f_failed is invoked, with value as well
try_lock(t) ==
    /\ pc[t] = "idle"
    /\ \E owns_lock \in try_to_lock(m_mutex) :
         IF owns_lock
         THEN /\ m_mutex' = shared_mutex_lock(m_mutex, t)
              /\ pc' = [ pc EXCEPT ![t] = "try_f_locked" ]
              /\ call' = [ call EXCEPT ![t] =
                             Invoke([ op |-> "try_lock", ran |-> << >> ], "f_locked", TRUE) ]
         ELSE /\ m_mutex' = m_mutex
              /\ pc' = [ pc EXCEPT ![t] = "try_f_failed" ]
              /\ call' = [ call EXCEPT ![t] =
                             Invoke([ op |-> "try_lock", ran |-> << >> ], "f_failed", TRUE) ]
    /\ UNCHANGED << array_vars, trace >>

\* the callback returns; the unique_lock is destroyed
try_lock_return(t) ==
    /\ pc[t] \in { "try_f_locked", "try_f_failed" }
    /\ m_mutex' = guard_release(m_mutex, t)
    /\ pc' = [ pc EXCEPT ![t] = "idle" ]
    /\ UNCHANGED << call, array_vars, trace >>

\* the steps of thread t that the scheduler takes once they can be taken:
\* everything but the decision to make a new call
Progress(t) ==
    \/ lock(t)
    \/ lock_return(t)
    \/ shared_lock(t)
    \/ shared_lock_return(t)
    \/ try_lock_return(t)

NextMutex ==
    \/ \E t \in Threads : lock_call(t)
    \/ \E t \in Threads : lock(t)
    \/ \E t \in Threads : lock_return(t)
    \/ \E t \in Threads : shared_lock_call(t)
    \/ \E t \in Threads : shared_lock(t)
    \/ \E t \in Threads : shared_lock_return(t)
    \/ \E t \in Threads : try_lock(t)
    \/ \E t \in Threads : try_lock_return(t)

SpecMutex == Init /\ [][NextMutex]_vars

\* every runnable thread is eventually scheduled
SpecMutexFair == SpecMutex /\ \A t \in Threads : WF_vars(Progress(t))

TypeOK ==
    /\ \A k \in 1 .. Len(data_vec) : data_vec[k] \in Values \cup { nullopt }
    /\ \A k \in 1 .. Len(alive_vec) : alive_vec[k] \in 0 .. (slots - 1)
    /\ size <= MaxAlive
    /\ size <= alive_cap
    /\ slots <= alive_cap

\* ---- properties ----------------------------------------------------------
\* alive_vec has no duplicate, names occupied slots only, and names every
\* occupied slot exactly once
LivenessInvariant ==
    /\ \A i \in Range(alive_vec) : Count(alive_vec, i) = 1
    /\ Range(alive_vec) \subseteq Occupied
    /\ \A i \in Occupied : Count(alive_vec, i) = 1

\* C1: after every public operation, in any sequence and with any in-range
\* index, alive_vec is duplicate-free and lists exactly the occupied slots.
C1_LivenessAfterEveryOperation == (~ crashed) => LivenessInvariant

\* C2: when emplace_at is only applied to empty in-range slots, after each call
\* size() is the number of occupied slots, and every index for_each hands to
\* its visitor names an occupied slot.
C2_SizeCountsOccupied ==
    (~ crashed) =>
        /\ size = Cardinality(Occupied)
        /\ last.op = "for_each" =>
               \A k \in 1 .. Len(last.visited) : last.visited[k][2] \in Occupied

C2_Witness ==
    /\ last.op = "erase_at"
    /\ last.pre_size = 2
    /\ last.pre_count = 1
    /\ size = 1
    /\ Cardinality(Occupied) = 1

\* the lowest-numbered empty slot, nullopt when every slot is occupied
LowestEmpty ==
    LET empty == { i \in 0 .. (slots - 1) : is_null(data_vec[i + 1]) } IN
    IF empty = {} THEN nullopt
    ELSE CHOOSE i \in empty : \A j \in empty : i <= j

\* C3: in every reachable state next_empty_index() returns the lowest-numbered
\* empty index, and returns "no value" exactly when size() == capacity().
C3_NextEmptyIsLowest ==
    (~ crashed) =>
        /\ next_empty_index_ret = LowestEmpty
        /\ (next_empty_index_ret = nullopt) <=> (size = capacity)

\* the entries of alive_vec whose slot holds a payload accepted by f
Matching(f) ==
    { k \in 1 .. size :
        has_value(data_vec[alive_vec[k] + 1]) /\ data_vec[alive_vec[k] + 1] \in f }

\* C4: erase_if(p) removes from alive_vec exactly the entries whose payload
\* satisfies p at call time and empties exactly those slots; the other entries
\* keep their relative order and payloads; size() drops by the match count.
C4_EraseIfRemovesExactlyMatches ==
    [][ (last'.op = "erase_if" /\ ~ crashed') =>
            LET f == last'.pred
                gone == { alive_vec[k] : k \in Matching(f) }
            IN /\ alive_vec' = Filter(alive_vec, Range(alive_vec) \ gone)
               /\ data_vec' = [ k \in 1 .. slots |->
                                  IF (k - 1) \in gone THEN nullopt ELSE data_vec[k] ]
               /\ size' = size - Cardinality(Matching(f)) ]_vars

\* C5: emplace_at(i, v) then at(i) yields v; and erase_at(i) of a live index
\* followed by emplace_at(i, v2) leaves at(i) = v2, i in alive_vec exactly once
\* and size() at its value before the erase.
C5_RoundTrip ==
    (~ crashed /\ last.op = "emplace_at") =>
        /\ data_vec[last.index + 1] = last.value
        /\ last.after_erase >= 0 =>
               /\ Count(alive_vec, last.index) = 1
               /\ size = last.after_erase

\* C6: clear() leaves every slot empty and alive_vec empty, so size() == 0 and,
\* with at least one slot, next_empty_index() returns index 0.
C6_ClearEmptiesEverything ==
    last.op = "clear" =>
        /\ \A k \in 1 .. slots : is_null(data_vec[k])
        /\ alive_vec = << >>
        /\ size = 0
        /\ slots >= 1 => next_empty_index_ret = 0

C6_Witness ==
    /\ last.op = "clear"
    /\ last.pre_size >= 2
    /\ slots >= 2
    /\ next_empty_index_ret = 0

\* C7: emplace_at(k, ...) and erase_at(k) leave, for every slot j # k, the
\* occupancy and payload of slot j and the membership and relative position of
\* j among the other entries of alive_vec unchanged.
C7_SlotStability ==
    [][ (last'.op \in {"emplace_at", "erase_at"} /\ ~ crashed') =>
            LET others == (0 .. (slots - 1)) \ { last'.index } IN
            /\ slots' = slots
            /\ \A j \in others : data_vec'[j + 1] = data_vec[j + 1]
            /\ Filter(alive_vec', others) = Filter(alive_vec, others) ]_vars

\* C8: resize(n) with n >= the current slot count keeps the occupancy and
\* payload of every existing slot, keeps alive_vec (membership and order),
\* makes every new slot empty and leaves size() unchanged.
C8_ResizeGrowPreserves ==
    [][ (last'.op = "resize" /\ last'.index >= slots) =>
            /\ slots' = last'.index
            /\ \A k \in 1 .. slots : data_vec'[k] = data_vec[k]
            /\ \A k \in (slots + 1) .. slots' : is_null(data_vec'[k])
            /\ alive_vec' = alive_vec
            /\ size' = size ]_vars

C8_Witness ==
    /\ last.op = "resize"
    /\ last.pre_slots >= 1
    /\ last.index > last.pre_slots
    /\ size >= 1
    /\ Occupied # {}

\* C9: capacity() changes only through resize: every other operation leaves it
\* at its value after the last resize.
C9_CapacityOnlyResize ==
    [][ last'.op # "resize" => capacity' = capacity ]_vars

\* the payload after n visits of the visitor
Visited(f, v, n) == IF f = "bump" THEN ((v - 1 + n) % NumValues) + 1 ELSE v

\* C10: for_each calls the visitor once per entry of alive_vec, in alive_vec
\* order (the order of insertion, not ascending slot order), with the index and
\* the payload of that slot; alive_vec and slot occupancy are unchanged.
C10_ForEachVisitsInAliveOrder ==
    [][ last'.op = "for_each" =>
            LET vis == last'.visited IN
            /\ Len(vis) = size
            /\ \A k \in 1 .. size :
                 /\ vis[k][2] = alive_vec[k]
                 /\ has_value(data_vec[alive_vec[k] + 1]) =>
                        vis[k][1] = Visited(last'.visitor, data_vec[alive_vec[k] + 1],
                                            Count(SubSeq(alive_vec, 1, k - 1), alive_vec[k]))
            /\ alive_vec' = alive_vec
            /\ slots' = slots
            /\ \A k \in 1 .. slots : has_value(data_vec'[k]) <=> has_value(data_vec[k]) ]_vars

C10_Witness ==
    /\ last.op = "for_each"
    /\ Len(last.visited) = 2
    /\ last.visited[1][2] > last.visited[2][2]
    /\ \A k \in 1 .. 2 : last.visited[k][2] = alive_vec[k]
    /\ LivenessInvariant

\* the positions of alive_vec whose slot holds a payload accepted by f
MatchingEntries(f) ==
    { k \in 1 .. Len(alive_vec) :
        has_value(data_vec[alive_vec[k] + 1]) /\ data_vec[alive_vec[k] + 1] \in f }

\* C11: first_if(p) returns the slot of the earliest alive_vec entry whose
\* payload satisfies p, evaluates p on the entries up to that one in order and
\* on none after it, returns no value exactly when no live payload satisfies
\* p, and changes neither alive_vec nor any slot.
C11_FirstIfFindsEarliest ==
    [][ last'.op = "first_if" =>
          LET M == MatchingEntries(last'.pred)
              first == CHOOSE k \in M : \A j \in M : k <= j
          IN  /\ data_vec' = data_vec
              /\ alive_vec' = alive_vec
              /\ (M = {}) <=> (last'.ret = nullopt)
              /\ M = {} => Len(last'.evals) = Len(alive_vec)
              /\ M # {} => /\ last'.ret = alive_vec[first]
                           /\ Len(last'.evals) = first
              /\ \A j \in 1 .. Len(last'.evals) : last'.evals[j][1] = alive_vec[j]
      ]_vars

\* C12: no thread runs f under lock(f) while another thread runs an f under
\* lock or a g under shared_lock on the same mutex; threads running g under
\* shared_lock may overlap each other.
C12_MutualExclusion ==
    \A t \in Threads, u \in Threads :
        (t # u /\ pc[t] = "lock_f") =>
            /\ pc[u] \notin { "lock_f", "shared_g" }
            /\ HoldsExclusive(t)
            /\ ~ HoldsShared(u)

C12_Witness ==
    \E t \in Threads, u \in Threads :
        /\ t # u
        /\ pc[t] = "shared_g" /\ pc[u] = "shared_g"
        /\ HoldsShared(t) /\ HoldsShared(u)

\* the mutex is owned by a thread other than t
HeldByOther(t) ==
    \/ m_mutex.writer \notin { 0, t }
    \/ m_mutex.readers \ { t } # {}

\* C13: try_lock(f_locked, f_failed) never waits and runs exactly one of the
\* two callbacks: f_locked when the exclusive lock is acquired at once, and
\* then no other thread owns the mutex; f_failed when another thread owns
\* the mutex at that moment.
C13_TryLockNeverWaits ==
    [][ \A t \in Threads :
          /\ pc[t] = "idle" => ENABLED try_lock(t)
          /\ (pc[t] = "idle" /\ call'[t].op = "try_lock" /\ pc'[t] # "idle") =>
                /\ pc'[t] \in { "try_f_locked", "try_f_failed" }
                /\ Len(call'[t].ran) = 1
                /\ call'[t].ran[1].cb = (IF pc'[t] = "try_f_locked" THEN "f_locked" ELSE "f_failed")
                /\ HeldByOther(t) => pc'[t] = "try_f_failed"
          /\ pc'[t] = "try_f_locked" =>
                /\ m_mutex'.writer = t
                /\ m_mutex'.readers = {}
                /\ \A u \in Threads \ { t } : pc'[u] \notin { "lock_f", "shared_g", "try_f_locked" }
          /\ (pc[t] \in { "try_f_locked", "try_f_failed" } /\ pc'[t] = "idle") =>
                /\ Len(call'[t].ran) = 1
                /\ call'[t].op = "try_lock"
      ]_vars

C13_Witness ==
    \E t \in Threads, u \in Threads :
        /\ pc[t] = "try_f_failed" /\ call[t].ran = << [ cb |-> "f_failed", value |-> TRUE ] >>
        /\ pc[u] = "try_f_locked" /\ HoldsExclusive(u)

\* s without its k-th entry
RemoveAt(s, k) == SubSeq(s, 1, k - 1) \o SubSeq(s, k + 1, Len(s))

\* C14: erase_at(index) removes index from alive_vec and empties the slot; when
\* index is listed more than once one call removes one occurrence only, leaves
\* every other entry in place, and never erases at or past the end of alive_vec.
C14_EraseAtRemovesOneOccurrence ==
    [][ last'.op = "erase_at" =>
          /\ ~ crashed'
          /\ ~ last'.past_end
          /\ is_null(data_vec'[last'.index + 1])
          /\ IF last'.pre_count = 0
             THEN alive_vec' = alive_vec
             ELSE \E k \in 1 .. Len(alive_vec) :
                    /\ alive_vec[k] = last'.index
                    /\ alive_vec' = RemoveAt(alive_vec, k)
      ]_vars

C16_EraseIfEvaluatesEachOnce ==
    [][ last'.op = "erase_if" =>
          LET ev == trace'.evals IN
          /\ Len(ev) = Len(alive_vec)
          /\ \A k \in 1 .. Len(ev) :
                /\ ev[k][1] = alive_vec[k]
                /\ ev[k][2] = 1
                /\ \A j \in 1 .. (k - 1) : ev[j][1] = ev[k][1] => ev[j][3] = 0
      ]_vars

\* C17: emplace_at(index, v) appends index to the end of alive_vec whatever the
\* slot held and stores v in the slot, so size() grows by one on every call;
\* two calls on the same index with no erase between them leave the index
\* twice in alive_vec with one slot occupied.
C17_EmplaceAtAppendsAlways ==
    [][ last'.op = "emplace_at" =>
          /\ alive_vec' = Append(alive_vec, last'.index)
          /\ Len(alive_vec') = size + 1
          /\ data_vec' = [ data_vec EXCEPT ![last'.index + 1] = last'.value ]
          /\ (last.op = "emplace_at" /\ last.index = last'.index) =>
                /\ Count(alive_vec', last'.index) >= 2
                /\ has_value(data_vec'[last'.index + 1])
                /\ { k \in 1 .. Len(data_vec') : has_value(data_vec'[k]) }
                     = { k \in 1 .. Len(data_vec) : has_value(data_vec[k]) }
      ]_vars

C17_Witness ==
    /\ last.op = "emplace_at"
    /\ last.pre_count = 1
    /\ last.pre_size = 1
    /\ alive_vec = << last.index, last.index >>
    /\ Occupied = { last.index }
    /\ size = 2

\* the slots the call recorded in last' erases, matches, clears or overwrites
Hit(index) ==
    \/ last'.op \in { "emplace_at", "erase_at" } /\ index = last'.index
    \/ last'.op = "clear"
    \/ /\ last'.op = "erase_if"
       /\ index \in Range(alive_vec)
       /\ data_vec[index + 1] \in last'.pred

\* C18: over any sequence of emplace_at, erase_at, erase_if and clear, a
\* payload constructed into a slot is destroyed at most once, and exactly when
\* its slot is erased, matched by erase_if, cleared or overwritten by a later
\* emplace_at (the old payload destroyed before the new one is constructed);
\* after clear() every payload ever constructed has been destroyed.
C18_PayloadLifetime ==
    [][ (last'.op \in { "emplace_at", "erase_at", "erase_if", "clear" } /\ ~ crashed') =>
          LET events == trace'.events IN
          /\ \A index \in 0 .. (slots - 1) :
                LET dtors == Events(events, << "dtor", index >>)
                    ctors == Events(events, << "ctor", index >>)
                IN  /\ dtors <= 1
                    /\ dtors = 1 <=> (has_value(data_vec[index + 1]) /\ Hit(index))
                    /\ ctors = (IF last'.op = "emplace_at" /\ index = last'.index THEN 1 ELSE 0)
                    /\ (dtors = 1 /\ ctors = 0) => is_null(data_vec'[index + 1])
                    /\ ctors = 1 => has_value(data_vec'[index + 1])
                    /\ (dtors = 0 /\ ctors = 0) => data_vec'[index + 1] = data_vec[index + 1]
                    /\ (dtors = 1 /\ ctors = 1) =>
                          events = << << "dtor", index >>, << "ctor", index >> >>
          /\ Len(events) = Constructed(events) + Destroyed(events)
          /\ trace'.balance = Cardinality({ k \in 1 .. Len(data_vec') : has_value(data_vec'[k]) })
          /\ last'.op = "clear" => trace'.balance = 0
      ]_vars

C18_Witness ==
    /\ last.op = "emplace_at"
    /\ trace.events = << << "dtor", last.index >>, << "ctor", last.index >> >>
    /\ trace.balance = 1
    /\ Count(alive_vec, last.index) = 2

\* thread t is blocked in the construction of the guard of lock or shared_lock
Blocked(t) == pc[t] \in { "lock_wait", "shared_wait" }

\* thread t runs the callback it passed to lock or shared_lock
Running(t) == pc[t] \in { "lock_f", "shared_g" }

Holds(t) == HoldsExclusive(t) \/ HoldsShared(t)

\* C19: when the callback passed to lock, shared_lock or try_lock has
\* returned, the calling thread holds no lock on the mutex, and under fair
\* scheduling every thread blocked in lock(f) or shared_lock(g) eventually
\* runs its callback.
C19_ReleasesSoBlockedRun ==
    /\ [](\A t \in Threads : pc[t] = "idle" => ~ Holds(t))
    /\ \A t \in Threads : Blocked(t) ~> Running(t)

\* C19 as amended: the caller holds no lock once its callback has returned,
\* every holder releases, and a blocked thread runs its callback unless
\* other threads hold the mutex again and again for ever.
C19_ReleasesOnEveryExit ==
    /\ [](\A t \in Threads : pc[t] = "idle" => ~ Holds(t))
    /\ \A t \in Threads : Holds(t) ~> ~ Holds(t)
    /\ \A t \in Threads :
          \/ []<>(\E u \in Threads \ { t } : Holds(u))
          \/ Blocked(t) ~> Running(t)

C19_Witness ==
    \E t \in Threads, u \in Threads :
        /\ pc[t] = "lock_wait"
        /\ pc[u] = "idle"
        /\ call[u].op \in { "lock", "shared_lock", "try_lock" }
        /\ Len(call[u].ran) = 1
        /\ shared_mutex_free(m_mutex)

\* C20: a callback is handed the guarded value only while the calling thread
\* holds the lock, exclusively for lock and try_lock and shared for
\* shared_lock; no callback of try_lock is handed it without the lock.
C20_ValueOnlyUnderLock ==
    \A t \in Threads :
        (pc[t] # "idle" /\ call[t].ran # << >> /\ call[t].ran[Len(call[t].ran)].value) =>
            IF call[t].op = "shared_lock" THEN HoldsShared(t) ELSE HoldsExclusive(t)

====
